---- MODULE Spec2Model ----
(***************************************************************************)
(* Data Factory schedule trigger resource                                  *)
(* (internal/services/datafactory/data_factory_trigger_schedule_resource.go)*)
(*                                                                         *)
(* The three handlers of the resource -- CreateUpdate, Read, Delete -- are *)
(* modelled as sequential pipelines of blocking remote calls against the   *)
(* TriggersClient.  One action is one remote call together with the local  *)
(* code that follows it up to the next remote call.  The remote store maps *)
(* a factory name to the trigger object held under the fixed trigger name. *)
(*                                                                         *)
(* Of the payload built at lines 261-305 the model carries everything but  *)
(* the pipeline parameters; d.Get reads the planned configuration          *)
(* (desired), d.Set / d.SetId write the resource data (d).                 *)
(*                                                                         *)
(* expandDataFactorySchedule and flattenDataFactorySchedule are operators; *)
(* SpecCodec applies them to bounded schedules on their own, SpecDrift     *)
(* runs Create and Read on configurations that set start_time, end_time    *)
(* and a schedule, and SpecUnserialized lets another invocation act in     *)
(* the middle of a deletion.                                               *)
(***************************************************************************)
EXTENDS Integers, Sequences, FiniteSets, TLC

VARIABLES
    remote,   \* factory name -> trigger object held by the service
    d,        \* pluginsdk.ResourceData: recorded id and reported fields
    desired,  \* the planned configuration that d.Get returns in this cycle
    op,       \* which handler runs: none / create / update / read / delete
    pc,       \* position inside the running handler
    id,       \* the handler's local `id`
    calls,    \* the remote calls this cycle has issued, in order
    err,      \* the error the handler returned ("none" for nil)
    aborted,  \* the cycle the caller is re-running after a failure, if any
    codec     \* a schedule on its way through encode and decode

\* The variables of the handlers.
machine == <<remote, d, desired, op, pc, id, calls, err, aborted>>

vars == <<remote, d, desired, op, pc, id, calls, err, aborted, codec>>

(***************************************************************************)
(* Bounds and value sets                                                   *)
(***************************************************************************)
MaxInterval == 1

Factories == {"f1", "f2"}
Frequencies == {"Minute", "Week"}
Pipelines == {"p1"}
Intervals == 1 .. MaxInterval

SubscriptionId == "sub"
ResourceGroupName == "rg"
TriggerName == "t1"

RuntimeStates == {"Stopped", "Started", "Stopping", "Starting"}
TriggerRuntimeStateStarted == "Started"
TypeScheduleTrigger == "ScheduleTrigger"
TypeOtherTrigger == "TumblingWindowTrigger"

(***************************************************************************)
(* Identifiers (package parse).  An identifier string is the sequence of   *)
(* its path segments; parsing checks the shape and recovers the fields.    *)
(***************************************************************************)
NoId == <<>>
NilDataFactoryId == [SubscriptionId |-> "", ResourceGroup |-> "", FactoryName |-> ""]
NilTriggerId == [SubscriptionId |-> "", ResourceGroup |-> "", FactoryName |-> "", Name |-> ""]

NewDataFactoryID(sub, rg, f) ==
    [SubscriptionId |-> sub, ResourceGroup |-> rg, FactoryName |-> f]

DataFactoryIdString(x) ==
    <<"subscriptions", x.SubscriptionId, "resourceGroups", x.ResourceGroup,
      "factories", x.FactoryName>>

ParseDataFactoryID(s) ==
    IF /\ Len(s) = 6
       /\ s[1] = "subscriptions"
       /\ s[3] = "resourceGroups"
       /\ s[5] = "factories"
       /\ s[2] # "" /\ s[4] # "" /\ s[6] # ""
    THEN [ok |-> TRUE, id |-> NewDataFactoryID(s[2], s[4], s[6])]
    ELSE [ok |-> FALSE, id |-> NilDataFactoryId]

NewTriggerID(sub, rg, f, n) ==
    [SubscriptionId |-> sub, ResourceGroup |-> rg, FactoryName |-> f, Name |-> n]

TriggerIdString(x) ==
    <<"subscriptions", x.SubscriptionId, "resourceGroups", x.ResourceGroup,
      "factories", x.FactoryName, "triggers", x.Name>>

ParseTriggerID(s) ==
    IF /\ Len(s) = 8
       /\ s[1] = "subscriptions"
       /\ s[3] = "resourceGroups"
       /\ s[5] = "factories"
       /\ s[7] = "triggers"
       /\ s[2] # "" /\ s[4] # "" /\ s[6] # "" /\ s[8] # ""
    THEN [ok |-> TRUE, id |-> NewTriggerID(s[2], s[4], s[6], s[8])]
    ELSE [ok |-> FALSE, id |-> NilTriggerId]

FactoryIdStringOf(f) ==
    DataFactoryIdString(NewDataFactoryID(SubscriptionId, ResourceGroupName, f))

MalformedFactoryId == <<"subscriptions", SubscriptionId, "factories">>

(***************************************************************************)
(* The schedule codec: expandDataFactorySchedule, flattenDataFactorySchedule*)
(*                                                                         *)
(* A `schedule` list as d.Get returns it and as d.Set takes it is a         *)
(* sequence of blocks; a block is nil or a map from field names to values.  *)
(* A *RecurrenceSchedule is nil or a struct of five pointers to slices.     *)
(***************************************************************************)
ScheduleFields == {"days_of_week", "monthly", "days_of_month", "minutes", "hours"}

OccurrenceFields == {"weekday", "week"}

\* input[0] == nil, and a block holding the map m.
NilBlock == [nil |-> TRUE, value |-> <<>>]

Block(m) == [nil |-> FALSE, value |-> m]

\* A nil pointer and a pointer to v.
Unset == [set |-> FALSE, v |-> <<>>]

Ptr(v) == [set |-> TRUE, v |-> v]

NilInt32 == [set |-> FALSE, v |-> 0]

\* datafactory.RecurrenceSchedule{} and the nil *RecurrenceSchedule.
EmptySchedule ==
    [nil |-> FALSE, WeekDays |-> Unset, MonthlyOccurrences |-> Unset,
     MonthDays |-> Unset, Minutes |-> Unset, Hours |-> Unset]

NilSchedule == [EmptySchedule EXCEPT !.nil = TRUE]

\* The Go conversion int32(n) of an int.  The schema validates every number
\* of a schedule into -31 .. 60 (lines 92-93, 113, 122, 142-143), where the
\* conversion does not wrap.
Int32(n) == n

\* utils.ExpandInt32Slice: a pointer to the slice of the int32 of each element.
ExpandInt32Slice(xs) == Ptr([i \in DOMAIN xs |-> Int32(xs[i])])

\* utils.FlattenInt32Slice: the elements of the slice pointed to.
FlattenInt32Slice(p) == [i \in DOMAIN p.v |-> p.v[i]]

\* Lines 430-457: the type assertion value[k].([]interface{}) on a key the
\* map does not hold, or value["week"].(int) on an occurrence without it,
\* panics (the conversion of a nil interface).
ExpandPanics(input) ==
    IF input = <<>> THEN FALSE
    ELSE IF input[1].nil THEN FALSE
    ELSE LET value == input[1].value
         IN  IF ~(ScheduleFields \subseteq DOMAIN value) THEN TRUE
             ELSE \E i \in DOMAIN value["monthly"] :
                     ~(OccurrenceFields \subseteq DOMAIN value["monthly"][i])

\* Lines 440-446: one element of `monthly`.
ExpandOccurrence(v) ==
    [Day |-> v["weekday"], Occurrence |-> [set |-> TRUE, v |-> Int32(v["week"])]]

\* A slice stored whether or not it has elements.
NonEmptyPtr_Always(xs) == Ptr(xs)

\* A slice is stored only when it has elements (lines 435-437, 447-449).
NonEmptyPtr(xs) == IF Len(xs) > 0 THEN Ptr(xs) ELSE Unset

\* Lines 423-462, for an input it does not panic on.
expandDataFactorySchedule(input) ==
    IF input = <<>> THEN NilSchedule
    ELSE IF input[1].nil THEN NilSchedule
    ELSE LET value == input[1].value
         IN  [nil |-> FALSE,
              WeekDays |-> NonEmptyPtr(value["days_of_week"]),
              MonthlyOccurrences |->
                  NonEmptyPtr([i \in DOMAIN value["monthly"] |->
                                  ExpandOccurrence(value["monthly"][i])]),
              MonthDays |-> IF Len(value["days_of_month"]) > 0
                            THEN ExpandInt32Slice(value["days_of_month"]) ELSE Unset,
              Minutes |-> IF Len(value["minutes"]) > 0
                          THEN ExpandInt32Slice(value["minutes"]) ELSE Unset,
              Hours |-> IF Len(value["hours"]) > 0
                        THEN ExpandInt32Slice(value["hours"]) ELSE Unset]

\* The struct field a schedule key is flattened from.
ScheduleField(schedule, k) ==
    CASE k = "minutes" -> schedule.Minutes
      [] k = "hours" -> schedule.Hours
      [] k = "days_of_week" -> schedule.WeekDays
      [] k = "days_of_month" -> schedule.MonthDays
      [] k = "monthly" -> schedule.MonthlyOccurrences

\* Lines 485-492: one element of MonthlyOccurrences.
FlattenOccurrence(v) ==
    [k \in {"weekday"} \cup (IF v.Occurrence.set THEN {"week"} ELSE {}) |->
        IF k = "weekday" THEN v.Day ELSE v.Occurrence.v]

\* Lines 468-496: the map of a non-nil schedule, with a key for each field
\* that is not nil.
FlattenFields(schedule) ==
    [k \in {f \in ScheduleFields : ScheduleField(schedule, f).set} |->
        CASE k \in {"minutes", "hours", "days_of_month"} ->
                 FlattenInt32Slice(ScheduleField(schedule, k))
          [] k = "days_of_week" -> schedule.WeekDays.v
          [] k = "monthly" ->
                 [i \in DOMAIN schedule.MonthlyOccurrences.v |->
                     FlattenOccurrence(schedule.MonthlyOccurrences.v[i])]]

\* A block with every key, for a nil schedule too.
flattenDataFactorySchedule_AllKeys(schedule) ==
    <<Block([k \in ScheduleFields |->
                IF ~schedule.nil /\ ScheduleField(schedule, k).set
                THEN FlattenFields(schedule)[k] ELSE <<>>])>>

\* Lines 464-498.
flattenDataFactorySchedule(schedule) ==
    IF schedule.nil THEN <<>> ELSE <<Block(FlattenFields(schedule))>>

\* What d.Get returns for a list that d.Set stored (the SDK's schema reader):
\* every key of the schema is there, an unset list as the empty list and an
\* unset number as 0.
ReadBackOccurrence(v) ==
    [k \in OccurrenceFields |->
        IF k \in DOMAIN v THEN v[k] ELSE IF k = "week" THEN 0 ELSE ""]

ReadBackBlock(value) ==
    [k \in ScheduleFields |->
        IF k \notin DOMAIN value THEN <<>>
        ELSE IF k = "monthly"
        THEN [i \in DOMAIN value[k] |-> ReadBackOccurrence(value[k][i])]
        ELSE value[k]]

SchemaReadBack(list) ==
    IF list = <<>> THEN <<>>
    ELSE IF list[1].nil THEN <<NilBlock>>
    ELSE <<Block(ReadBackBlock(list[1].value))>>

(***************************************************************************)
(* The codec applied to bounded inputs                                     *)
(***************************************************************************)
\* How often a schedule is taken through encode and decode.
MaxRounds == 2

Occurrence(weekday, week) == [k \in OccurrenceFields |->
                                 IF k = "weekday" THEN weekday ELSE week]

DaysOfWeekLists == {<<>>, <<"Monday">>, <<"Friday", "Monday">>}

\* week = 0 is what d.Get returns for an occurrence without `week`.
MonthlyLists ==
    {<<>>, <<Occurrence("Monday", 1)>>,
     <<Occurrence("Sunday", 0), Occurrence("Friday", -1)>>}

DaysOfMonthLists == {<<>>, <<1>>, <<-1, 15>>}

MinuteLists == {<<>>, <<0>>, <<30, 0>>}

HourLists == {<<>>, <<23>>}

\* The `schedule` lists d.Get can return (schema lines 79-151): no block, a
\* block with nothing in it (nil), or a block with all its keys, any of the
\* lists empty.
CodecInputs ==
    {<<>>, <<NilBlock>>}
    \cup {<<Block([k \in ScheduleFields |->
                     CASE k = "days_of_week" -> dow
                       [] k = "monthly" -> mon
                       [] k = "days_of_month" -> dom
                       [] k = "minutes" -> mi
                       [] k = "hours" -> ho])>> :
             dow \in DaysOfWeekLists, mon \in MonthlyLists,
             dom \in DaysOfMonthLists, mi \in MinuteLists, ho \in HourLists}

\* Schedules the service can return that no encode of this resource made.
ReceivedSchedules ==
    {NilSchedule, EmptySchedule,
     [EmptySchedule EXCEPT !.Hours = Ptr(<<>>)],
     [EmptySchedule EXCEPT !.MonthlyOccurrences =
         Ptr(<<[Day |-> "Monday", Occurrence |-> NilInt32]>>)]}

NoCodec ==
    [phase |-> "off", x0 |-> <<>>, x |-> <<>>, r |-> NilSchedule,
     ys |-> <<>>, via |-> "none"]

\* encode: expandDataFactorySchedule(d.Get("schedule")) at line 268.
CodecEncode ==
    /\ codec.phase = "declared"
    /\ codec' = IF ExpandPanics(codec.x)
                THEN [codec EXCEPT !.phase = "panicked"]
                ELSE [codec EXCEPT !.phase = "encoded",
                                   !.r = expandDataFactorySchedule(codec.x)]
    /\ UNCHANGED machine

\* decode: flattenDataFactorySchedule as called at line 373.
CodecDecode ==
    /\ codec.phase \in {"encoded", "received"}
    /\ codec' = [codec EXCEPT !.phase = "decoded",
                              !.ys = Append(@, flattenDataFactorySchedule(codec.r))]
    /\ UNCHANGED machine

\* The decoded list handed to encode as it is.
CodecFeedBack ==
    /\ codec.phase = "decoded"
    /\ Len(codec.ys) < MaxRounds
    /\ codec.via \in {"none", "direct"}
    /\ codec' = [codec EXCEPT !.phase = "declared", !.via = "direct",
                              !.x = codec.ys[Len(codec.ys)]]
    /\ UNCHANGED machine

\* The decoded list stored with d.Set (line 373) and read with d.Get (line
\* 268) in the next cycle.
CodecReadBack ==
    /\ codec.phase = "decoded"
    /\ Len(codec.ys) < MaxRounds
    /\ codec.via \in {"none", "schema"}
    /\ codec' = [codec EXCEPT !.phase = "declared", !.via = "schema",
                              !.x = SchemaReadBack(codec.ys[Len(codec.ys)])]
    /\ UNCHANGED machine

(***************************************************************************)
(* The remote trigger object                                               *)
(***************************************************************************)
\* Instants, and the RFC 3339 strings of the configuration.  A nil *date.Time
\* is NilTime.
NilTime == ""

\* time.Now() at line 273.
Now == "instant 2021-01-01 00:00 UTC"

\* The start_time and the end_time of the configurations that set one.
StartTimes == {"2021-06-01T02:00:00+02:00"}

EndTimes == {"2022-01-01T00:00:00Z"}

\* time.Parse(time.RFC3339, v) with its error dropped (lines 270, 278): the
\* instant the string names, the zero time for a string that does not parse.
ParseTime(str) ==
    CASE str = "2021-06-01T00:00:00Z" -> "instant 2021-06-01 00:00 UTC"
      [] str = "2021-06-01T02:00:00+02:00" -> "instant 2021-06-01 00:00 UTC"
      [] str = "2022-01-01T00:00:00Z" -> "instant 2022-01-01 00:00 UTC"
      [] str = "2021-01-01T00:00:00Z" -> "instant 2021-01-01 00:00 UTC"
      [] OTHER -> "instant 0001-01-01 00:00 UTC"

\* v.Format(time.RFC3339) (lines 364, 367) of a time the service returned,
\* which it returns in UTC.
FormatTime(t) ==
    CASE t = "instant 2021-06-01 00:00 UTC" -> "2021-06-01T00:00:00Z"
      [] t = "instant 2022-01-01 00:00 UTC" -> "2022-01-01T00:00:00Z"
      [] t = "instant 2021-01-01 00:00 UTC" -> "2021-01-01T00:00:00Z"
      [] OTHER -> "0001-01-01T00:00:00Z"

Absent ==
    [exists |-> FALSE, kind |-> "", runtimeState |-> "Stopped",
     frequency |-> "", interval |-> 0, pipeline |-> "",
     startTime |-> NilTime, endTime |-> NilTime, schedule |-> NilSchedule,
     description |-> "", annotations |-> Unset]

\* What the handler sends: lines 261-305.  d.GetOk is false for a string or
\* list that is empty.
Payload(D) ==
    [frequency |-> D.frequency, interval |-> D.interval, pipeline |-> D.pipeline_name,
     schedule |-> expandDataFactorySchedule(D.schedule),
     startTime |-> IF D.start_time # "" THEN ParseTime(D.start_time) ELSE Now,
     endTime |-> IF D.end_time # "" THEN ParseTime(D.end_time) ELSE NilTime,
     description |-> D.description,
     annotations |-> IF D.annotations # <<>> THEN Ptr(D.annotations) ELSE Unset]

\* The service's PUT: the definition is replaced; runtimeState is read-only
\* in the API, a new object is Stopped and an existing one keeps its state.
PutObject(obj, p) ==
    [exists |-> TRUE, kind |-> TypeScheduleTrigger,
     runtimeState |-> IF obj.exists THEN obj.runtimeState ELSE "Stopped",
     frequency |-> p.frequency, interval |-> p.interval, pipeline |-> p.pipeline,
     startTime |-> p.startTime, endTime |-> p.endTime, schedule |-> p.schedule,
     description |-> p.description, annotations |-> p.annotations]

PreState(obj) == IF obj.exists THEN obj.runtimeState ELSE "Absent"

\* The answers client.Get can give for an object.
GetResults(obj) == (IF obj.exists THEN {"found"} ELSE {"notfound"}) \cup {"error"}

Entry(call, res, obj) == [call |-> call, res |-> res, pre |-> PreState(obj)]

(***************************************************************************)
(* Resource data and planned configuration                                 *)
(***************************************************************************)
NewResourceData ==
    [id |-> NoId, name |-> "", resource_group_name |-> "", data_factory_name |-> "",
     data_factory_id |-> NoId, activated |-> FALSE, frequency |-> "",
     interval |-> 0, pipeline_name |-> "",
     start_time |-> "", end_time |-> "", schedule |-> <<>>,
     description |-> "", annotations |-> <<>>]

NoDesired ==
    [data_factory_name |-> "", data_factory_id |-> NoId, activated |-> FALSE,
     frequency |-> "", interval |-> 0, pipeline_name |-> "",
     start_time |-> "", end_time |-> "", schedule |-> <<>>,
     description |-> "", annotations |-> <<>>]

\* A configuration that sets the required fields and leaves start_time,
\* end_time, schedule, description and annotations out.
Desired(fname, fid, act, freq, ival, pipe) ==
    [NoDesired EXCEPT !.data_factory_name = fname, !.data_factory_id = fid,
                      !.activated = act, !.frequency = freq, !.interval = ival,
                      !.pipeline_name = pipe]

\* The schedule blocks of the configurations that set one.
Schedules ==
    {<<Block([k \in ScheduleFields |->
                 IF k = "days_of_week" THEN <<"Monday">> ELSE <<>>])>>}

\* Schema lines 54-71: exactly one selector is configured on create; the
\* identifier may come from an expression that validation never saw.
\* ExactlyOneOf counts an identifier that is unknown at plan time as not
\* specified, so a create may run with the name and a (by then known)
\* identifier both set, naming different factories or not parsing at all.
CreateSelectors ==
    {<<f, NoId>> : f \in Factories}
    \cup {<<"", FactoryIdStringOf(f)>> : f \in Factories}
    \cup {<<"", MalformedFactoryId>>}
    \cup {<<sel[1], FactoryIdStringOf(sel[2])>> :
               sel \in {fg \in Factories \X Factories : fg[1] # fg[2]}}
    \cup {<<f, MalformedFactoryId>> : f \in Factories}

\* Both selectors are Computed and ForceNew: on update they name the factory
\* of the recorded id, through either field or both.
UpdateSelectors(f) ==
    {<<f, NoId>>, <<"", FactoryIdStringOf(f)>>, <<f, FactoryIdStringOf(f)>>}

\* No cycle is being re-run.
NoCycle == [op |-> "none", desired |-> NoDesired]

Idle == pc = "idle"

IdleFrame ==
    /\ op' = "none"
    /\ desired' = NoDesired
    /\ id' = NilTriggerId
    /\ calls' = <<>>
    /\ err' = "none"

Init ==
    /\ remote = [f \in Factories |-> Absent]
    /\ d = NewResourceData
    /\ desired = NoDesired
    /\ op = "none"
    /\ pc = "idle"
    /\ id = NilTriggerId
    /\ calls = <<>>
    /\ err = "none"
    /\ aborted = NoCycle
    /\ codec = NoCodec

\* The handler returns `e` without touching anything else.
Fail(e) ==
    /\ err' = e
    /\ pc' = "done"


(***************************************************************************)
(* The caller (resource wiring, lines 22-27): which handler is invoked     *)
(* with which resource data.                                               *)
(***************************************************************************)
\* Create: a new resource, no recorded id, the plan as configuration.
BeginCreate ==
    /\ Idle
    /\ \E sel \in CreateSelectors, act \in BOOLEAN, freq \in Frequencies,
          ival \in Intervals, pipe \in Pipelines :
          desired' = Desired(sel[1], sel[2], act, freq, ival, pipe)
    /\ op' = "create"
    /\ d' = NewResourceData
    /\ pc' = "cu_resolve"
    /\ aborted' = NoCycle
    /\ UNCHANGED <<remote, id, calls, err>>
    /\ UNCHANGED codec

\* Create of a trigger that is not activated, in the factory "f1", with a
\* configuration that may set start_time, end_time and a schedule as well.
BeginCreateFull ==
    /\ Idle
    /\ \E ival \in Intervals, pipe \in Pipelines,
          st \in {""} \cup StartTimes, et \in {""} \cup EndTimes,
          sch \in {<<>>} \cup Schedules :
          desired' = [Desired("f1", NoId, FALSE, "Week", ival, pipe) EXCEPT
                         !.start_time = st, !.end_time = et, !.schedule = sch,
                         !.description = "nightly", !.annotations = <<"a1">>]
    /\ op' = "create"
    /\ d' = NewResourceData
    /\ pc' = "cu_resolve"
    /\ aborted' = NoCycle
    /\ UNCHANGED <<remote, id, calls, err>>
    /\ UNCHANGED codec

\* Update: the recorded id is known.
BeginUpdate ==
    /\ Idle
    /\ d.id # NoId
    /\ \E sel \in UpdateSelectors(ParseTriggerID(d.id).id.FactoryName),
          act \in BOOLEAN, freq \in Frequencies, ival \in Intervals,
          pipe \in Pipelines :
          desired' = Desired(sel[1], sel[2], act, freq, ival, pipe)
    /\ op' = "update"
    /\ pc' = "cu_resolve"
    /\ aborted' = NoCycle
    /\ UNCHANGED <<remote, d, id, calls, err>>
    /\ UNCHANGED codec

BeginRead ==
    /\ Idle
    /\ d.id # NoId
    /\ op' = "read"
    /\ pc' = "rd_get"
    /\ UNCHANGED <<remote, d, desired, id, calls, err, aborted>>
    /\ UNCHANGED codec

BeginDelete ==
    /\ Idle
    /\ d.id # NoId
    /\ op' = "delete"
    /\ pc' = "dl_stop"
    /\ UNCHANGED <<remote, d, desired, id, calls, err, aborted>>
    /\ UNCHANGED codec

\* The handler has returned.  A resource whose id is empty, or whose Delete
\* returned nil, is dropped from the caller's state.
Return ==
    /\ pc = "done"
    /\ pc' = "idle"
    /\ d' = IF d.id = NoId \/ (op = "delete" /\ err = "none")
            THEN NewResourceData ELSE d
    /\ IdleFrame
    /\ aborted' = NoCycle
    /\ UNCHANGED remote
    /\ UNCHANGED codec

\* The errors that come from a remote call failing or timing out.
RemoteFailures ==
    {"CheckingPresence", "UpdateFailed", "StartFailed", "StartWaitFailed",
     "RetrievingFailed"}

\* The handler has returned and the caller notes a create-or-update cycle that
\* a remote failure aborted, to run it again: a create that recorded no id
\* is run again as a create, an update as an update.
ReturnAborted ==
    /\ pc = "done"
    /\ pc' = "idle"
    /\ d' = IF d.id = NoId THEN NewResourceData ELSE d
    /\ IdleFrame
    /\ aborted' = IF /\ err \in RemoteFailures
                    /\ \/ op = "update"
                       \/ op = "create" /\ d.id = NoId
                 THEN [op |-> op, desired |-> desired]
                 ELSE NoCycle
    /\ UNCHANGED remote
    /\ UNCHANGED codec

\* The caller runs the aborted cycle again with the same configuration.
BeginRetry ==
    /\ Idle
    /\ aborted # NoCycle
    /\ aborted.op = "update" => d.id # NoId
    /\ op' = aborted.op
    /\ desired' = aborted.desired
    /\ d' = IF aborted.op = "create" THEN NewResourceData ELSE d
    /\ pc' = "cu_resolve"
    /\ UNCHANGED <<remote, id, calls, err, aborted>>
    /\ UNCHANGED codec

(***************************************************************************)
(* resourceDataFactoryTriggerScheduleCreateUpdate                          *)
(***************************************************************************)
\* The name taken first, the identifier only when no name is given.
ResolveDataFactoryId_NameFirst(D) ==
    IF D.data_factory_name # ""
    THEN [ok |-> TRUE, nil |-> FALSE,
          id |-> NewDataFactoryID(SubscriptionId, ResourceGroupName,
                                  D.data_factory_name)]
    ELSE IF D.data_factory_id # NoId
    THEN LET p == ParseDataFactoryID(D.data_factory_id)
         IN  [ok |-> p.ok, nil |-> ~p.ok, id |-> p.id]
    ELSE [ok |-> TRUE, nil |-> TRUE, id |-> NilDataFactoryId]

\* Lines 233-245: the factory the selectors resolve to.
ResolveDataFactoryId(D) ==
    LET byName ==
            IF D.data_factory_name # ""
            THEN [ok |-> TRUE, nil |-> FALSE,
                  id |-> NewDataFactoryID(SubscriptionId, ResourceGroupName,
                                          D.data_factory_name)]
            ELSE [ok |-> TRUE, nil |-> TRUE, id |-> NilDataFactoryId]
    IN  IF D.data_factory_id # NoId
        THEN LET p == ParseDataFactoryID(D.data_factory_id)
             IN  [ok |-> p.ok, nil |-> ~p.ok, id |-> p.id]
        ELSE byName

\* Lines 233-246.
CUResolve ==
    /\ pc = "cu_resolve"
    /\ LET r == ResolveDataFactoryId(desired)
       IN  IF ~r.ok
           THEN Fail("ParseError") /\ id' = id
           ELSE IF r.nil
           THEN Fail("NilDereference") /\ id' = id
           ELSE /\ id' = NewTriggerID(SubscriptionId, r.id.ResourceGroup,
                                      r.id.FactoryName, TriggerName)
                /\ pc' = IF op = "create" THEN "cu_precheck" ELSE "cu_put"
                /\ err' = err
    /\ UNCHANGED <<remote, d, desired, op, calls, aborted>>
    /\ UNCHANGED codec

\* The pre-check with the found object adopted instead of refused.
PrecheckVerdict_Adopt(r) ==
    IF r = "error" THEN "CheckingPresence" ELSE "none"

\* Lines 250-258: what the pre-check makes of the answer of Get.
PrecheckVerdict(r) ==
    IF r = "error" THEN "CheckingPresence"
    ELSE IF r = "found" THEN "AlreadyExists"
    ELSE "none"

\* Lines 248-259 (the branch is entered only when d.IsNewResource()).
CUPrecheck ==
    /\ pc = "cu_precheck"
    /\ \E r \in GetResults(remote[id.FactoryName]) :
          /\ calls' = Append(calls, Entry("get", r, remote[id.FactoryName]))
          /\ IF PrecheckVerdict(r) # "none"
             THEN Fail(PrecheckVerdict(r))
             ELSE pc' = "cu_put" /\ err' = err
    /\ UNCHANGED <<remote, d, desired, op, id, aborted>>
    /\ UNCHANGED codec

\* Start issued whatever the flag says.
NeedsStart_Always(D) == TRUE

\* Line 311.
NeedsStart(D) == D.activated

\* The error of createOrUpdate dropped.
PutVerdict_Ignored(out) == "none"

\* Lines 307-309.
PutVerdict(out) == IF out = "ok" THEN "none" ELSE "UpdateFailed"

\* Line 321.
SetId(dd, tid) == [dd EXCEPT !.id = TriggerIdString(tid)]

\* Lines 261-309, and 311 / 321 after a successful call.  A failed call may
\* or may not have been applied by the service.
CUPut ==
    /\ pc = "cu_put"
    /\ \E out \in {"ok", "error", "error_applied"} :
          /\ calls' = Append(calls,
                 Entry("createOrUpdate", IF out = "ok" THEN "ok" ELSE "error",
                       remote[id.FactoryName]))
          /\ remote' = IF out = "error" THEN remote
                       ELSE [remote EXCEPT ![id.FactoryName] =
                                PutObject(@, Payload(desired))]
          /\ IF PutVerdict(out) # "none"
             THEN Fail(PutVerdict(out)) /\ d' = d
             ELSE IF NeedsStart(desired)
             THEN pc' = "cu_start" /\ d' = d /\ err' = err
             ELSE pc' = "rd_get" /\ d' = SetId(d, id) /\ err' = err
    /\ UNCHANGED <<desired, op, id, aborted>>
    /\ UNCHANGED codec

\* The answers Start and Stop can give: a missing object is refused.
LroCallResults(obj) == IF obj.exists THEN {"ok", "error"} ELSE {"error"}

\* Lines 313-315.
StartVerdict(out) == IF out = "ok" THEN "none" ELSE "StartFailed"

\* Lines 312-315.
CUStart ==
    /\ pc = "cu_start"
    /\ \E out \in LroCallResults(remote[id.FactoryName]) :
          /\ calls' = Append(calls, Entry("start", out, remote[id.FactoryName]))
          /\ remote' = IF out = "ok"
                       THEN [remote EXCEPT ![id.FactoryName].runtimeState =
                                IF @ = "Started" THEN "Started" ELSE "Starting"]
                       ELSE remote
          /\ IF StartVerdict(out) = "none"
             THEN pc' = "cu_startwait" /\ err' = err
             ELSE Fail(StartVerdict(out))
    /\ UNCHANGED <<d, desired, op, id, aborted>>
    /\ UNCHANGED codec

\* WaitForCompletionRef returns nil only when the operation has reached
\* `target`; it may fail or time out in any state.
WaitResults(obj, pending, target) ==
    (IF obj.exists /\ obj.runtimeState \in {pending, target} THEN {"ok"} ELSE {})
    \cup {"error"}

\* The error of the wait on Start dropped.
StartWaitVerdict_Ignored(out) == "none"

\* Lines 316-318.
StartWaitVerdict(out) == IF out = "ok" THEN "none" ELSE "StartWaitFailed"

\* Lines 316-321.
CUStartWait ==
    /\ pc = "cu_startwait"
    /\ \E out \in WaitResults(remote[id.FactoryName], "Starting", "Started") :
          /\ calls' = Append(calls, Entry("wait", out, remote[id.FactoryName]))
          /\ remote' = IF out = "ok"
                       THEN [remote EXCEPT ![id.FactoryName].runtimeState = "Started"]
                       ELSE remote
          /\ IF StartWaitVerdict(out) = "none"
             THEN d' = SetId(d, id) /\ pc' = "rd_get" /\ err' = err
             ELSE Fail(StartWaitVerdict(out)) /\ d' = d
    /\ UNCHANGED <<desired, op, id, aborted>>
    /\ UNCHANGED codec

(***************************************************************************)
(* resourceDataFactoryTriggerScheduleRead                                  *)
(***************************************************************************)
\* Every state but Stopped taken for active.
Activated_NotStopped(obj) == obj.runtimeState # "Stopped"

\* Line 360.
Activated(obj) == obj.runtimeState = TriggerRuntimeStateStarted

\* Lines 348-352.
ProjectIdentity(dd, tid) ==
    [dd EXCEPT !.name = tid.Name,
               !.resource_group_name = tid.ResourceGroup,
               !.data_factory_name = tid.FactoryName,
               !.data_factory_id = DataFactoryIdString(
                   NewDataFactoryID(tid.SubscriptionId, tid.ResourceGroup,
                                    tid.FactoryName))]

\* flattenDataFactoryAnnotations: the empty list for nil.
flattenDataFactoryAnnotations(annotations) ==
    IF annotations.set THEN annotations.v ELSE <<>>

\* start_time, end_time and schedule cleared when the object has none.
ProjectProperties_Clearing(dd, obj) ==
    [dd EXCEPT !.activated = Activated(obj),
               !.start_time = IF obj.startTime # NilTime
                              THEN FormatTime(obj.startTime) ELSE "",
               !.end_time = IF obj.endTime # NilTime
                            THEN FormatTime(obj.endTime) ELSE "",
               !.frequency = obj.frequency,
               !.interval = obj.interval,
               !.schedule = SchemaReadBack(flattenDataFactorySchedule(obj.schedule)),
               !.pipeline_name = obj.pipeline,
               !.annotations = flattenDataFactoryAnnotations(obj.annotations),
               !.description = obj.description]

\* Lines 359-393.  What d.Set stored for `schedule` is kept as d.Get
\* returns it.
ProjectProperties(dd, obj) ==
    [dd EXCEPT !.activated = Activated(obj),
               !.start_time = IF obj.startTime # NilTime
                              THEN FormatTime(obj.startTime) ELSE @,
               !.end_time = IF obj.endTime # NilTime
                            THEN FormatTime(obj.endTime) ELSE @,
               !.frequency = obj.frequency,
               !.interval = obj.interval,
               !.schedule = IF ~obj.schedule.nil
                            THEN SchemaReadBack(flattenDataFactorySchedule(obj.schedule))
                            ELSE @,
               !.pipeline_name = obj.pipeline,
               !.annotations = flattenDataFactoryAnnotations(obj.annotations),
               !.description = obj.description]

\* Every failure of Get taken for a missing object.
ReadOnGetFailure_Swallow(dd, r) ==
    [d |-> [dd EXCEPT !.id = NoId], err |-> "none"]

\* Lines 339-346: what Read does with a failed Get.
ReadOnGetFailure(dd, r) ==
    IF r = "notfound"
    THEN [d |-> [dd EXCEPT !.id = NoId], err |-> "none"]
    ELSE [d |-> dd, err |-> "RetrievingFailed"]

\* Every trigger taken for a schedule trigger.
AsScheduleTrigger_Any(obj) == TRUE

\* Lines 354-357: resp.Properties.AsScheduleTrigger() succeeds on a schedule
\* trigger only.
AsScheduleTrigger(obj) == obj.kind = TypeScheduleTrigger

\* Lines 331-396.
RDGet ==
    /\ pc = "rd_get"
    /\ LET p == ParseTriggerID(d.id)
       IN  IF ~p.ok
           THEN Fail("ParseError") /\ UNCHANGED <<d, id, calls>>
           ELSE \E r \in GetResults(remote[p.id.FactoryName]) :
                  LET obj == remote[p.id.FactoryName]
                  IN  /\ id' = p.id
                      /\ calls' = Append(calls, Entry("get", r, obj))
                      /\ pc' = "done"
                      /\ IF r # "found"
                         THEN /\ d' = ReadOnGetFailure(d, r).d
                              /\ err' = ReadOnGetFailure(d, r).err
                         ELSE IF ~AsScheduleTrigger(obj)
                         THEN /\ d' = ProjectIdentity(d, p.id)
                              /\ err' = "ClassificationError"
                         ELSE /\ d' = ProjectProperties(ProjectIdentity(d, p.id), obj)
                              /\ err' = "none"
    /\ UNCHANGED <<remote, desired, op, aborted>>
    /\ UNCHANGED codec

(***************************************************************************)
(* resourceDataFactoryTriggerScheduleDelete                                *)
(***************************************************************************)
\* The error of Stop dropped.
StopVerdict_Ignored(out) == "none"

\* Lines 409-411.
StopVerdict(out) == IF out = "ok" THEN "none" ELSE "StopFailed"

\* Lines 403-411.
DLStop ==
    /\ pc = "dl_stop"
    /\ LET p == ParseTriggerID(d.id)
       IN  IF ~p.ok
           THEN Fail("ParseError") /\ UNCHANGED <<remote, id, calls>>
           ELSE \E out \in LroCallResults(remote[p.id.FactoryName]) :
                  /\ id' = p.id
                  /\ calls' = Append(calls, Entry("stop", out, remote[p.id.FactoryName]))
                  /\ remote' = IF out = "ok"
                               THEN [remote EXCEPT ![p.id.FactoryName].runtimeState =
                                        IF @ = "Stopped" THEN "Stopped" ELSE "Stopping"]
                               ELSE remote
                  /\ IF StopVerdict(out) = "none"
                     THEN pc' = "dl_stopwait" /\ err' = err
                     ELSE Fail(StopVerdict(out))
    /\ UNCHANGED <<d, desired, op, aborted>>
    /\ UNCHANGED codec

\* The error of the wait on Stop dropped.
StopWaitVerdict_Ignored(out) == "none"

\* Lines 412-414.
StopWaitVerdict(out) == IF out = "ok" THEN "none" ELSE "StopWaitFailed"

\* Lines 412-414.
DLStopWait ==
    /\ pc = "dl_stopwait"
    /\ \E out \in WaitResults(remote[id.FactoryName], "Stopping", "Stopped") :
          /\ calls' = Append(calls, Entry("wait", out, remote[id.FactoryName]))
          /\ remote' = IF out = "ok"
                       THEN [remote EXCEPT ![id.FactoryName].runtimeState = "Stopped"]
                       ELSE remote
          /\ IF StopWaitVerdict(out) = "none"
             THEN pc' = "dl_delete" /\ err' = err
             ELSE Fail(StopWaitVerdict(out))
    /\ UNCHANGED <<d, desired, op, id, aborted>>
    /\ UNCHANGED codec

\* Lines 416-420.  A failed call may or may not have been applied.
DLDelete ==
    /\ pc = "dl_delete"
    /\ \E out \in {"ok", "error", "error_applied"} :
          /\ calls' = Append(calls,
                 Entry("delete", IF out = "ok" THEN "ok" ELSE "error",
                       remote[id.FactoryName]))
          /\ remote' = IF out = "error" THEN remote
                       ELSE [remote EXCEPT ![id.FactoryName] = Absent]
          /\ IF out = "ok"
             THEN pc' = "done" /\ err' = "none"
             ELSE Fail("DeleteFailed")
    /\ UNCHANGED <<d, desired, op, id, aborted>>
    /\ UNCHANGED codec

(***************************************************************************)
(* The service and its other users                                         *)
(***************************************************************************)
\* A pending start or stop finishes, or fails and falls back.
RemoteProgress ==
    /\ \E f \in Factories :
          /\ remote[f].exists
          /\ remote[f].runtimeState \in {"Starting", "Stopping"}
          /\ \E s \in {"Started", "Stopped"} :
                remote' = [remote EXCEPT ![f].runtimeState = s]
    /\ UNCHANGED <<d, desired, op, pc, id, calls, err, aborted>>
    /\ UNCHANGED codec

\* Between two cycles someone else removes the trigger.
ExternalDelete ==
    /\ Idle
    /\ \E f \in Factories :
          /\ remote[f].exists
          /\ remote' = [remote EXCEPT ![f] = Absent]
    /\ UNCHANGED <<d, desired, op, pc, id, calls, err, aborted>>
    /\ UNCHANGED codec

\* Between two cycles someone else creates a trigger of another kind under
\* the same name.
ExternalCreate ==
    /\ Idle
    /\ \E f \in Factories :
          /\ ~remote[f].exists
          /\ remote' = [remote EXCEPT ![f] =
                 [Absent EXCEPT !.exists = TRUE, !.kind = TypeOtherTrigger]]
    /\ UNCHANGED <<d, desired, op, pc, id, calls, err, aborted>>
    /\ UNCHANGED codec

\* Someone else edits the trigger and takes its start time, its end time or
\* its schedule out.
ExternalEdit ==
    /\ Idle
    /\ \E f \in Factories, field \in {"startTime", "endTime", "schedule"} :
          /\ remote[f].exists
          /\ remote[f].kind = TypeScheduleTrigger
          /\ remote' = [remote EXCEPT ![f] =
                 CASE field = "startTime" -> [@ EXCEPT !.startTime = NilTime]
                   [] field = "endTime" -> [@ EXCEPT !.endTime = NilTime]
                   [] field = "schedule" -> [@ EXCEPT !.schedule = NilSchedule]]
          /\ remote'[f] # remote[f]
    /\ UNCHANGED <<d, desired, op, pc, id, calls, err, aborted>>
    /\ UNCHANGED codec

\* The trigger is removed by someone else while a handler is running.
ConcurrentDelete ==
    /\ pc \notin {"idle", "done"}
    /\ \E f \in Factories :
          /\ remote[f].exists
          /\ remote' = [remote EXCEPT ![f] = Absent]
    /\ UNCHANGED <<d, desired, op, pc, id, calls, err, aborted>>
    /\ UNCHANGED codec

\* Another invocation for the same trigger runs unserialized with a deletion
\* cycle: its create-or-update with activated = true (lines 307-318:
\* createOrUpdate of the definition the object has, start, and the wait on
\* it) lands between two calls of the deletion, once in a cycle.  What it
\* did is noted in the call log as a call of that other invocation.
ConcurrentCreateUpdate ==
    /\ op = "delete"
    /\ pc \in {"dl_stopwait", "dl_delete"}
    /\ remote[id.FactoryName].exists
    /\ remote[id.FactoryName].kind = TypeScheduleTrigger
    /\ \A i \in 1 .. Len(calls) : calls[i].call # "other:start"
    /\ calls' = Append(calls, Entry("other:start", "ok", remote[id.FactoryName]))
    /\ remote' = [remote EXCEPT ![id.FactoryName].runtimeState =
                      TriggerRuntimeStateStarted]
    /\ UNCHANGED <<d, desired, op, pc, id, err, aborted>>
    /\ UNCHANGED codec

Next ==
    \/ BeginCreate \/ BeginUpdate \/ BeginRead \/ BeginDelete \/ Return
    \/ CUResolve \/ CUPrecheck \/ CUPut \/ CUStart \/ CUStartWait
    \/ RDGet
    \/ DLStop \/ DLStopWait \/ DLDelete
    \/ RemoteProgress \/ ExternalDelete \/ ExternalCreate

\* Invocations are serialized by the caller and nobody else touches the
\* trigger while a handler runs.
Spec == Init /\ [][Next]_vars

NextShared == Next \/ ConcurrentDelete

\* The trigger may be removed by another party in the middle of a cycle.
SpecShared == Init /\ [][NextShared]_vars

NextUnserialized == Next \/ ConcurrentCreateUpdate

\* Invocations for the same trigger are not serialized: a create-or-update
\* may run in the middle of a deletion cycle.
SpecUnserialized == Init /\ [][NextUnserialized]_vars

NextDrift ==
    \/ BeginCreateFull \/ BeginRead \/ Return
    \/ CUResolve \/ CUPrecheck \/ CUPut
    \/ RDGet
    \/ ExternalEdit

\* The caller creates triggers with start time, end time and schedule and
\* refreshes them; in between, someone else edits them on the service.
SpecDrift == Init /\ [][NextDrift]_vars

\* The codec on its own: a schedule is drawn, as configuration or as the
\* service's answer, and taken through encode and decode.
InitCodec ==
    /\ remote = [f \in Factories |-> Absent]
    /\ d = NewResourceData
    /\ desired = NoDesired
    /\ op = "none"
    /\ pc = "idle"
    /\ id = NilTriggerId
    /\ calls = <<>>
    /\ err = "none"
    /\ aborted = NoCycle
    /\ codec \in {[NoCodec EXCEPT !.phase = "declared", !.x0 = x, !.x = x] :
                      x \in CodecInputs}
               \cup {[NoCodec EXCEPT !.phase = "received", !.r = r] :
                         r \in ReceivedSchedules}

NextCodec == CodecEncode \/ CodecDecode \/ CodecFeedBack \/ CodecReadBack

SpecCodec == InitCodec /\ [][NextCodec]_vars

\* The caller creates and updates, and re-runs a cycle that a remote failure
\* aborted; nobody else touches the trigger.
NextRetry ==
    \/ BeginCreate \/ BeginUpdate \/ BeginRetry \/ ReturnAborted
    \/ CUResolve \/ CUPrecheck \/ CUPut \/ CUStart \/ CUStartWait
    \/ RDGet
    \/ RemoteProgress

SpecRetry == Init /\ [][NextRetry]_vars

TypeOK ==
    /\ op \in {"none", "create", "update", "read", "delete"}
    /\ pc \in {"idle", "done", "cu_resolve", "cu_precheck", "cu_put", "cu_start",
               "cu_startwait", "rd_get", "dl_stop", "dl_stopwait", "dl_delete"}
    /\ \A f \in Factories : remote[f].exists \in BOOLEAN
    /\ Len(calls) <= 5


(***************************************************************************)
(* Properties                                                              *)
(***************************************************************************)
InCreateUpdate == op \in {"create", "update"}

Issued(call) == {i \in 1 .. Len(calls) : calls[i].call = call}

\* The object the running handler addresses.
Target == remote[id.FactoryName]

\* A step taken by the handler itself (not by the service or another party).
HandlerStep == pc' # pc \/ calls' # calls

\* C1: in a create cycle whose pre-check Get finds an object, the cycle ends
\* with AlreadyExists after that single call -- no createOrUpdate, no start --
\* and no step of the cycle changes the remote store.
C1_Inv ==
    (op = "create" /\ calls # <<>> /\ calls[1].res = "found")
        => /\ pc = "done"
           /\ err = "AlreadyExists"
           /\ Len(calls) = 1
           /\ calls[1].call = "get"
           /\ d.id = NoId

C1_Step ==
    (op' = "create" /\ HandlerStep /\ calls' # <<>> /\ calls'[1].res = "found")
        => remote' = remote

\* C1: a create cycle whose pre-check finds an object always ends with
\* AlreadyExists after that one Get, and none of its steps changes the
\* remote store.
C1_AlreadyExistsAborts == []C1_Inv /\ [][C1_Step]_vars

C1_Witness ==
    /\ op = "create" /\ pc = "done" /\ err = "AlreadyExists"
    /\ calls[1].res = "found"
    /\ Target.exists

\* C2: a deletion cycle issues stop first, whatever the runtime state, and
\* issues delete only as its third call, after stop was accepted and the wait
\* on it returned nil.
C2_StopBeforeDelete ==
    op = "delete"
        => /\ calls # <<>> => calls[1].call = "stop"
           /\ pc \in {"dl_stopwait", "dl_delete"} => calls # <<>>
           /\ (pc = "dl_delete" \/ Issued("delete") # {})
                 => /\ Len(calls) >= 2
                    /\ calls[1].call = "stop" /\ calls[1].res = "ok"
                    /\ calls[2].call = "wait" /\ calls[2].res = "ok"
           /\ Issued("delete") \subseteq {3}

C2_Witness ==
    /\ op = "delete"
    /\ Issued("delete") = {3}
    /\ calls[1].call = "stop" /\ calls[1].pre = "Stopped"

\* C3: when stop or the wait on stop fails, the deletion cycle has ended with
\* that error, delete was not issued, the recorded id is kept and an object
\* that was there when stop was issued is still there.
C3_DeleteFailsClosed ==
    (/\ op = "delete"
     /\ \E i \in 1 .. Len(calls) :
           calls[i].call \in {"stop", "wait"} /\ calls[i].res = "error")
        => /\ pc = "done"
           /\ err \in {"StopFailed", "StopWaitFailed"}
           /\ Issued("delete") = {}
           /\ d.id = TriggerIdString(id)
           /\ calls[1].pre # "Absent" => Target.exists

C3_Witness ==
    /\ op = "delete" /\ pc = "done" /\ err = "StopWaitFailed"
    /\ calls[2].call = "wait" /\ calls[2].res = "error"
    /\ Target.exists

\* C4: a create cycle with activated = false never issues start, and a create
\* cycle that returns nil has recorded the id and reports activated exactly
\* as configured.
C4_ActivationOnCreate ==
    op = "create"
        => /\ ~desired.activated => Issued("start") = {}
           /\ (pc = "done" /\ err = "none")
                 => /\ d.id = TriggerIdString(id)
                    /\ d.activated = desired.activated

C4_Witness ==
    /\ op = "create" /\ pc = "done" /\ err = "none"
    /\ desired.activated /\ d.activated
    /\ Issued("start") # {}

C4_WitnessStopped ==
    /\ op = "create" /\ pc = "done" /\ err = "none"
    /\ ~desired.activated /\ ~d.activated /\ d.id # NoId

\* C5 (as claimed): an update of a Started trigger that changes nothing but
\* activated, from true to false, has issued stop and no delete when it
\* returns nil, and the state it reads back has activated = false and the
\* recurrence and pipeline fields it had before.
C5_Step ==
    (/\ op = "update" /\ pc = "rd_get" /\ pc' = "done" /\ err' = "none"
     /\ d.activated /\ ~desired.activated
     /\ d.frequency = desired.frequency
     /\ d.interval = desired.interval
     /\ d.pipeline_name = desired.pipeline_name
     /\ calls[1].call = "createOrUpdate" /\ calls[1].pre = "Started")
        => /\ \E i \in 1 .. Len(calls') : calls'[i].call = "stop"
           /\ \A i \in 1 .. Len(calls') : calls'[i].call # "delete"
           /\ d'.activated = FALSE
           /\ d'.frequency = d.frequency
           /\ d'.interval = d.interval
           /\ d'.pipeline_name = d.pipeline_name

\* C5 (as claimed): every update that only flips activated from true to
\* false on a Started trigger calls stop, not delete, and reads back
\* activated = false with the other fields unchanged.
C5_DeactivateOnUpdate == [][C5_Step]_vars

\* C6: start is issued only after a createOrUpdate that returned nil; a
\* failed createOrUpdate is the last call of the cycle, which ends with
\* UpdateFailed; createOrUpdate is issued at most once per cycle.
C6_DefineBeforeStart ==
    InCreateUpdate
        => /\ \A i \in Issued("start") :
                 \E j \in Issued("createOrUpdate") : j < i /\ calls[j].res = "ok"
           /\ \A j \in Issued("createOrUpdate") :
                 calls[j].res # "ok"
                     => /\ Len(calls) = j
                        /\ pc = "done"
                        /\ err = "UpdateFailed"
           /\ Cardinality(Issued("createOrUpdate")) <= 1
           /\ pc \in {"cu_start", "cu_startwait"}
                 => \E j \in Issued("createOrUpdate") : calls[j].res = "ok"

C6_Witness ==
    /\ InCreateUpdate /\ pc = "done" /\ err = "UpdateFailed"
    /\ desired.activated
    /\ Issued("createOrUpdate") # {}

\* C7 (as claimed): when the cycle ends because start or the wait on start
\* failed, the definition is committed and the caller can read it: the id is
\* recorded (Read addresses the object by d.Id()) and the object is present
\* and not Started, so that the read reports activated = false.
C7_PartialSuccessObservable ==
    (InCreateUpdate /\ pc = "done" /\ err \in {"StartFailed", "StartWaitFailed"})
        => /\ Target.exists
           /\ d.id = TriggerIdString(id)
           /\ Target.runtimeState # TriggerRuntimeStateStarted

\* The remote object is what the configuration asks for.
Converged ==
    /\ Target.exists
    /\ Target.kind = TypeScheduleTrigger
    /\ Target.frequency = desired.frequency
    /\ Target.interval = desired.interval
    /\ Target.pipeline = desired.pipeline_name
    /\ (Target.runtimeState = TriggerRuntimeStateStarted) = desired.activated

\* C8 (as claimed): a cycle that a remote failure aborted and that the
\* caller runs again with the same configuration, with no remote call
\* failing this time, returns nil with the remote object converged.
C8_RetryConverges ==
    (/\ aborted # NoCycle
     /\ InCreateUpdate /\ pc = "done"
     /\ \A i \in 1 .. Len(calls) : calls[i].res # "error")
        => err = "none" /\ Converged

\* C9 (as claimed): when the read-back after a successful createOrUpdate
\* finds the object missing, the cycle returns an error.
C9_NotFoundMidUpdateIsError ==
    (/\ InCreateUpdate /\ pc = "done"
     /\ \E j \in Issued("createOrUpdate") : calls[j].res = "ok"
     /\ calls[Len(calls)].call = "get"
     /\ calls[Len(calls)].res = "notfound")
        => err # "none"

\* The handler has been through Read (standalone, or as the read-back) and
\* its Get is the last call.
ReadAnswered ==
    /\ pc = "done"
    /\ calls # <<>>
    /\ calls[Len(calls)].call = "get"
    /\ \/ op = "read"
       \/ InCreateUpdate /\ Len(calls) >= 2

\* C10: when the Get of Read answers NotFound the recorded id is cleared and
\* nil is returned; when it fails otherwise an error is returned and the
\* recorded id is kept.
C10_ReadMissing ==
    ReadAnswered
        => /\ calls[Len(calls)].res = "notfound"
                 => d.id = NoId /\ err = "none"
           /\ calls[Len(calls)].res = "error"
                 => err = "RetrievingFailed" /\ d.id = TriggerIdString(id)

C10_Witness ==
    /\ op = "read" /\ pc = "done"
    /\ calls[1].res = "notfound"
    /\ d.id = NoId /\ err = "none"

C10_WitnessError ==
    /\ op = "read" /\ pc = "done"
    /\ calls[1].res = "error"
    /\ d.id # NoId /\ err = "RetrievingFailed"

\* The fields Read reports from the properties of a schedule trigger.
KindSpecific(dd) ==
    [activated |-> dd.activated, start_time |-> dd.start_time,
     end_time |-> dd.end_time, frequency |-> dd.frequency,
     interval |-> dd.interval, schedule |-> dd.schedule,
     pipeline_name |-> dd.pipeline_name, annotations |-> dd.annotations,
     description |-> dd.description]

\* The Get of Read has just found an object of another kind than schedule.
ReadFoundOtherKind ==
    /\ pc = "rd_get" /\ pc' = "done"
    /\ calls'[Len(calls')].res = "found"
    /\ remote[id'.FactoryName].kind # TypeScheduleTrigger

C11_Step ==
    ReadFoundOtherKind
        => /\ err' = "ClassificationError"
           /\ KindSpecific(d') = KindSpecific(d)

\* C11: a Read whose Get finds an object that is not a schedule trigger
\* returns the classification error and reports none of the kind-specific
\* fields: they keep the values they had.
C11_NonScheduleKindRefused == [][C11_Step]_vars

C11_Witness ==
    /\ op = "read" /\ pc = "done" /\ err = "ClassificationError"
    /\ calls[1].res = "found"
    /\ Target.kind = TypeOtherTrigger
    /\ d.frequency \in Frequencies

\* The last call of the cycle and the object it found.
LastCall == calls[Len(calls)]

\* C17: a Read that finds a schedule trigger reports activated = true exactly
\* when the runtime state it found was Started, and so false for Stopped,
\* Stopping and Starting.
C17_ActivatedIffStarted ==
    (ReadAnswered /\ LastCall.res = "found" /\ err = "none")
        => /\ d.activated = (LastCall.pre = TriggerRuntimeStateStarted)
           /\ LastCall.pre \in {"Stopped", "Stopping", "Starting"} => ~d.activated

C17_Witness ==
    /\ ReadAnswered /\ LastCall.res = "found" /\ err = "none"
    /\ LastCall.pre = "Starting"
    /\ ~d.activated

C17_WitnessStopping ==
    /\ ReadAnswered /\ LastCall.res = "found" /\ err = "none"
    /\ LastCall.pre = "Stopping"
    /\ ~d.activated

C17_WitnessStarted ==
    /\ ReadAnswered /\ LastCall.res = "found" /\ err = "none"
    /\ LastCall.pre = "Started"
    /\ d.activated

\* Some call of this kind was issued in the cycle and returned nil.
Succeeded(cs, call) == \E i \in 1 .. Len(cs) : cs[i].call = call /\ cs[i].res = "ok"

\* The errors CreateUpdate returns before line 321.
FailuresBeforeSetId ==
    {"ParseError", "CheckingPresence", "AlreadyExists", "UpdateFailed",
     "StartFailed", "StartWaitFailed"}

C18_Step ==
    (InCreateUpdate /\ op' = op /\ d'.id # d.id /\ d'.id # NoId)
        => /\ d'.id = TriggerIdString(id)
           /\ Succeeded(calls', "createOrUpdate")
           /\ desired.activated
                 => Succeeded(calls', "start") /\ Succeeded(calls', "wait")

C18_Inv ==
    (InCreateUpdate /\ pc = "done" /\ err \in FailuresBeforeSetId)
        => /\ op = "create" => d.id = NoId
           /\ op = "update" => d.id # NoId /\ ParseTriggerID(d.id).ok

\* C18: a create-or-update cycle records the id only once createOrUpdate and,
\* when activated is set, start and the wait on it have all returned nil;
\* a cycle that ends with a parse, pre-check, AlreadyExists, createOrUpdate,
\* start or start-wait error leaves the recorded id as it was, so that a
\* failed create has no recorded id even when the definition was committed.
C18_IdRecordedLast == []C18_Inv /\ [][C18_Step]_vars

C18_Witness ==
    /\ op = "create" /\ pc = "done" /\ err = "StartWaitFailed"
    /\ Succeeded(calls, "createOrUpdate") /\ Succeeded(calls, "start")
    /\ Target.exists
    /\ d.id = NoId

\* No other invocation has acted on the trigger during this cycle.
Serialized == \A i \in 1 .. Len(calls) : calls[i].call # "other:start"

\* C16: when the invocations for a trigger are serialized, delete is only
\* ever issued on a trigger whose runtime state is Stopped; a delete issued
\* on a trigger in another state has a create-or-update of another
\* invocation in the middle of its cycle.
C16_DeleteOnlyStopped ==
    \A i \in Issued("delete") :
        calls[i].pre # "Stopped"
            => \E j \in 1 .. i - 1 : calls[j].call = "other:start"

\* The interleaving the claim names: the other invocation's start lands
\* after the wait on stop returned, and delete is issued on a Started trigger.
C16_Witness ==
    /\ op = "delete"
    /\ ~Serialized
    /\ \E i \in Issued("delete") : calls[i].pre = TriggerRuntimeStateStarted

C16_WitnessSerialized ==
    /\ op = "delete"
    /\ Serialized
    /\ \E i \in Issued("delete") : calls[i].pre = "Stopped"
    /\ calls[1].pre = TriggerRuntimeStateStarted

\* C15: a create-or-update cycle addresses the factory of whichever selector
\* is non-empty, and the factory of the identifier when both are; when the
\* identifier does not parse the cycle has ended with the parse error and
\* has made no remote call.
C15_IdentityResolution ==
    (InCreateUpdate /\ pc # "cu_resolve")
        => IF desired.data_factory_id # NoId
           THEN IF ParseDataFactoryID(desired.data_factory_id).ok
                THEN /\ id.FactoryName =
                          ParseDataFactoryID(desired.data_factory_id).id.FactoryName
                     /\ id.ResourceGroup =
                          ParseDataFactoryID(desired.data_factory_id).id.ResourceGroup
                ELSE pc = "done" /\ err = "ParseError" /\ calls = <<>>
           ELSE desired.data_factory_name # ""
                   => /\ id.FactoryName = desired.data_factory_name
                      /\ id.ResourceGroup = ResourceGroupName

C15_Witness ==
    /\ op = "create" /\ pc = "done" /\ err = "none"
    /\ desired.data_factory_name # ""
    /\ desired.data_factory_id # NoId
    /\ id.FactoryName # desired.data_factory_name
    /\ Target.exists

C15_WitnessParseError ==
    /\ op = "create" /\ pc = "done" /\ err = "ParseError"
    /\ desired.data_factory_name # ""
    /\ desired.data_factory_id = MalformedFactoryId
    /\ calls = <<>>

\* A configured schedule with a block that has an element in some list.
Populated(input) ==
    /\ input # <<>>
    /\ ~input[1].nil
    /\ \E k \in ScheduleFields : Len(input[1].value[k]) > 0

\* No list that is empty in the configured schedule has a key in what the
\* first decode returned.
NoFieldInvented ==
    (codec.ys # <<>> /\ codec.ys[1] # <<>>)
        => \A k \in ScheduleFields :
              Len(codec.x0[1].value[k]) = 0 => k \notin DOMAIN codec.ys[1][1].value

RoundTrips ==
    /\ codec.phase # "panicked"
    /\ \A i \in 1 .. Len(codec.ys) : codec.ys[i] = codec.ys[1]
    /\ NoFieldInvented

EmptyBlock == Block([k \in ScheduleFields |-> <<>>])

\* C13 (as claimed): decode never returns nothing; for a nil remote
\* schedule it returns one block whose five fields are all empty.
C13_DecodeNeverNothing ==
    codec.phase = "decoded"
        => /\ codec.ys[Len(codec.ys)] # <<>>
           /\ codec.r.nil => codec.ys[Len(codec.ys)] = <<EmptyBlock>>

\* C13 (amended): decode returns the empty list, no block at all, for a nil
\* remote schedule, and for any other exactly one block, which has a key
\* for each field of the schedule that is not nil and no other key.
C13_DecodeNilIsNoBlock ==
    codec.phase = "decoded"
        => LET y == codec.ys[Len(codec.ys)]
           IN  IF codec.r.nil THEN y = <<>>
               ELSE /\ Len(y) = 1
                    /\ ~y[1].nil
                    /\ DOMAIN y[1].value =
                          {k \in ScheduleFields : ScheduleField(codec.r, k).set}

C13_Witness ==
    /\ codec.phase = "decoded"
    /\ codec.r.nil
    /\ codec.ys = << <<>> >>

\* C14 (as claimed): encode returns nil when no schedule is configured and
\* when the configured block has nothing in any of its five lists.
C14_EncodeNothing ==
    (codec.phase = "encoded" /\ ~Populated(codec.x)) => codec.r.nil

\* Read has just projected a schedule trigger it found.
ReadProjected ==
    /\ pc = "rd_get" /\ pc' = "done" /\ err' = "none"
    /\ calls'[Len(calls')].res = "found"

C19_Step ==
    ReadProjected
        => LET obj == remote[id'.FactoryName]
           IN  /\ d'.start_time = IF obj.startTime = NilTime THEN d.start_time
                                  ELSE FormatTime(obj.startTime)
               /\ d'.end_time = IF obj.endTime = NilTime THEN d.end_time
                                ELSE FormatTime(obj.endTime)
               /\ obj.schedule.nil => d'.schedule = d.schedule
               /\ ~obj.schedule.nil => d'.schedule # <<>>

\* C19: Read overwrites start_time, end_time and schedule only when the
\* remote object has the value: for a remote object without a start time,
\* an end time or a schedule the field keeps what was reported before
\* and is not cleared.
C19_ReadKeepsWhatIsAbsent == [][C19_Step]_vars

\* A refresh after the start time, the end time and the schedule were taken
\* out on the service still reports all three.
C19_Witness ==
    /\ op = "read" /\ pc = "done" /\ err = "none"
    /\ calls[1].res = "found"
    /\ Target.startTime = NilTime /\ d.start_time # ""
    /\ Target.endTime = NilTime /\ d.end_time # ""
    /\ Target.schedule.nil /\ d.schedule # <<>>

====
